---- MODULE Spec2Model ----
(***************************************************************************)
(* freya: a terminal front end that compresses / decompresses one file on  *)
(* a background thread (src/src/compression.rs) and follows its progress   *)
(* through an mpsc channel drained by the controller's poll loop           *)
(* (src/src/app.rs).                                                       *)
(*                                                                         *)
(* Files are sequences of symbols.  The zstd codec is an external crate;   *)
(* it is modelled by a run-length frame format (a magic symbol followed by *)
(* one symbol per run), so that compressing changes both the content and   *)
(* the size of a file and decoding can reject a file.                      *)
(***************************************************************************)
EXTENDS Integers, Sequences, FiniteSets, TLC

VARIABLES fs, jobs, chan, sent, app, pc, last_event, last_drain, test

vars == <<fs, jobs, chan, sent, app, pc, last_event, last_drain, test>>

-----------------------------------------------------------------------------
(* Bounds of the model *)

\* longest file content the environment provides
MaxLen == 3
\* number of jobs the controller starts in one run of the application
MaxJobs == 2
\* size of the workers' chunk buffer, in symbols (the code's is 64 * 1024)
BufSize == 2

Byte == {0, 1}

Min(a, b) == IF a < b THEN a ELSE b
Max(a, b) == IF a > b THEN a ELSE b

\* every file content of at most MaxLen bytes
Contents == UNION {[1..n -> Byte] : n \in 0..MaxLen}

-----------------------------------------------------------------------------
(* Paths and the file system *)

InputTxt == <<"input", "txt">>
InputZst == <<"input", "txt", "zst">>
InputBare == <<"input">>
OutputTxt == <<"output", "txt">>

Paths == {InputBare, InputTxt, InputZst, OutputTxt}

NoFile == [exists |-> FALSE, data |-> <<>>]
File(d) == [exists |-> TRUE, data |-> d]

\* PathBuf::with_extension(""): the path without its last extension
with_extension_empty(p) == IF Len(p) > 1 THEN SubSeq(p, 1, Len(p) - 1) ELSE p

\* the input path with ".zst" appended to its extension; a path that has no
\* extension gets the extension ".zst" set, which PathBuf renders "input..zst"
default_output_path(p) ==
    IF Len(p) > 1 THEN Append(p, "zst") ELSE p \o <<"", "zst">>

\* a write of d at offset pos of a file holding old (a hole reads as 0)
WriteAt(old, pos, d) ==
    [i \in 1..Max(Len(old), pos + Len(d)) |->
        IF i > pos /\ i <= pos + Len(d) THEN d[i - pos]
        ELSE IF i <= Len(old) THEN old[i] ELSE 0]

-----------------------------------------------------------------------------
(* The codec: zstd::stream::Encoder / Decoder *)

\* first symbol of a frame
Magic == 40
\* a run of c copies of v (1 <= c < RunBase) is the symbol RunBase*(v+1) + c
RunBase == 8
\* the level start_compression passes to Encoder::new
EncoderLevel == 3

LeadRun(s) ==
    CHOOSE k \in 1..Min(Len(s), RunBase - 1) :
        /\ \A i \in 1..k : s[i] = s[1]
        /\ k = Min(Len(s), RunBase - 1) \/ s[k + 1] # s[1]

RECURSIVE EncodeRuns(_)
EncodeRuns(s) ==
    IF s = <<>> THEN <<>>
    ELSE LET k == LeadRun(s)
         IN  <<RunBase * (s[1] + 1) + k>> \o EncodeRuns(SubSeq(s, k + 1, Len(s)))

\* Encoder::finish: the frame for everything written to the encoder
EncoderFinish(pending) == <<Magic>> \o EncodeRuns(pending)

ValidRun(t) == t >= RunBase /\ t % RunBase >= 1
Expand(t) == [i \in 1..(t % RunBase) |-> (t \div RunBase) - 1]

\* The decoder pulls symbols of the source, from index idx on, until it
\* holds BufSize decoded bytes, the source ends or a symbol is no run.
RECURSIVE DecoderFill(_, _, _)
DecoderFill(data, idx, out) ==
    IF Len(out) >= BufSize \/ idx > Len(data)
    THEN [out |-> out, rpos |-> idx - 1, bad |-> FALSE]
    ELSE IF ~ValidRun(data[idx])
    THEN [out |-> out, rpos |-> idx - 1, bad |-> out = <<>>]
    ELSE DecoderFill(data, idx + 1, out \o Expand(data[idx]))

-----------------------------------------------------------------------------
(* Messages: enum CompressMessage *)

Progress(b, t) == [type |-> "Progress", bytes_processed |-> b, total_bytes |-> t]
Finished(o, c, p) ==
    [type |-> "Finished", original_size |-> o, compressed_size |-> c,
     output_path |-> p]
Error(e) == [type |-> "Error", message |-> e]

IsTerminal(m) == m.type \in {"Finished", "Error"}

\* tx.send(m).unwrap(): a worker whose receiver was dropped stops at the send
SendOrStop(j, m) ==
    /\ chan[j].alive
    /\ sent' = [sent EXCEPT ![j] = Append(@, m)]
    /\ chan' = [chan EXCEPT ![j].queue = Append(@, m)]

\* tx.send(m) with the result ignored: a message sent after the receiver was
\* dropped is discarded
Send(j, m) ==
    /\ sent' = [sent EXCEPT ![j] = Append(@, m)]
    /\ chan' = [chan EXCEPT ![j].queue = IF chan[j].alive THEN Append(@, m) ELSE @]

\* the receiver r (0 for none) goes out of scope: its queue is freed
DropReceiver(ch, r) ==
    [i \in 1..Len(ch) |-> IF i = r THEN [alive |-> FALSE, queue |-> <<>>] ELSE ch[i]]

\* let mut buffer = [0u8; 64 * 1024]
ZeroBuffer == [i \in 1..BufSize |-> 0]

\* mpsc::channel() and thread::spawn: a new channel and a new worker thread,
\* which has run nothing yet
NewJob(kind, input, output, level) ==
    [kind |-> kind, input_path |-> input, output_path |-> output,
     level |-> level, pc |-> "open", total_bytes |-> 0, bytes_processed |-> 0,
     rpos |-> 0, wpos |-> 0, buffer |-> ZeroBuffer, bytes_read |-> 0,
     encoder |-> <<>>, decoder_out |-> <<>>, compressed_size |-> 0]

Spawn(ch, kind, input, output, level) ==
    /\ jobs' = Append(jobs, NewJob(kind, input, output, level))
    /\ chan' = Append(ch, [alive |-> TRUE, queue |-> <<>>])
    /\ sent' = Append(sent, <<>>)

\* a worker that ends on an error without a word
FailSilently(j, e) ==
    /\ jobs' = [jobs EXCEPT ![j].pc = "done"]
    /\ UNCHANGED <<chan, sent>>

\* the ? operator returns Err(e) from the closure, and the thread's match
\* sends Error(e.to_string()) as its last act
Fail(j, e) ==
    /\ jobs' = [jobs EXCEPT ![j].pc = "done"]
    /\ Send(j, Error(e))

\* a read of n symbols at offset pos of data into the front of buffer
ReadInto(buffer, data, pos, n) ==
    [i \in 1..Len(buffer) |-> IF i <= n THEN data[pos + i] ELSE buffer[i]]

\* &buffer: the whole buffer, with what an earlier read left in it
WholeBuffer(buffer, bytes_read) == buffer

\* &buffer[..bytes_read]
Chunk(buffer, bytes_read) == SubSeq(buffer, 1, bytes_read)

\* bytes_processed = bytes_read
LastRead(bytes_processed, bytes_read) == bytes_read

\* bytes_processed += bytes_read as u64
AddProcessed(bytes_processed, bytes_read) == bytes_processed + bytes_read

AppVars == <<app, pc, last_event, last_drain>>

-----------------------------------------------------------------------------
(* The compression worker: the thread of start_compression.  A step runs   *)
(* from one access to the file system to the next; any access can fail.    *)

IsJob(j, kind, at) == jobs[j].kind = kind /\ jobs[j].pc = at

\* let mut input_file = File::open(&input_path)?;
\* let total_bytes = input_file.metadata()?.len()
compress_open(j) ==
    /\ IsJob(j, "compress", "open")
    /\ \/ /\ fs[jobs[j].input_path].exists
          /\ jobs' = [jobs EXCEPT ![j].pc = "create",
                         ![j].total_bytes = Len(fs[jobs[j].input_path].data)]
          /\ UNCHANGED <<chan, sent>>
       \/ Fail(j, "io error")
    /\ UNCHANGED <<fs, AppVars, test>>

\* let output_file = File::create(&output_path)?  (creates or truncates);
\* let mut encoder = Encoder::new(output_file, 3)?; buffer; bytes_processed = 0
compress_create(j) ==
    /\ IsJob(j, "compress", "create")
    /\ \/ /\ fs' = [fs EXCEPT ![jobs[j].output_path] = File(<<>>)]
          /\ \/ /\ jobs' = [jobs EXCEPT ![j].pc = "read", ![j].encoder = <<>>,
                               ![j].buffer = ZeroBuffer, ![j].bytes_processed = 0]
                /\ UNCHANGED <<chan, sent>>
             \/ Fail(j, "io error")
       \/ Fail(j, "io error") /\ UNCHANGED fs
    /\ UNCHANGED <<AppVars, test>>

\* One turn of the loop: let bytes_read = input_file.read(&mut buffer)?;
\* if bytes_read == 0 { break }; encoder.write_all(&buffer[..bytes_read])?;
\* bytes_processed += bytes_read; let _ = tx.send(Progress { .. }).
\* The read of a regular file fills the buffer, or takes what is left.
compress_chunk(j) ==
    /\ IsJob(j, "compress", "read")
    /\ LET data == fs[jobs[j].input_path].data
           n == Min(BufSize, Max(0, Len(data) - jobs[j].rpos))
           buffer == ReadInto(jobs[j].buffer, data, jobs[j].rpos, n)
           bp == AddProcessed(jobs[j].bytes_processed, n)
       IN  \/ /\ n = 0
              /\ jobs' = [jobs EXCEPT ![j].pc = "finish", ![j].bytes_read = 0]
              /\ UNCHANGED <<chan, sent>>
           \/ /\ n > 0
              /\ jobs' = [jobs EXCEPT
                     ![j].bytes_read = n, ![j].buffer = buffer, ![j].rpos = @ + n,
                     ![j].encoder = @ \o Chunk(buffer, n),
                     ![j].bytes_processed = bp]
              /\ Send(j, Progress(bp, jobs[j].total_bytes))
           \/ Fail(j, "io error")
    /\ UNCHANGED <<fs, AppVars, test>>

\* let output_file = encoder.finish()?  (the frame reaches the output file)
compress_finish(j) ==
    /\ IsJob(j, "compress", "finish")
    /\ \/ /\ fs' = [fs EXCEPT ![jobs[j].output_path] =
                      File(WriteAt(@.data, jobs[j].wpos, EncoderFinish(jobs[j].encoder)))]
          /\ jobs' = [jobs EXCEPT ![j].pc = "size",
                                  ![j].wpos = @ + Len(EncoderFinish(jobs[j].encoder))]
          /\ UNCHANGED <<chan, sent>>
       \/ Fail(j, "io error") /\ UNCHANGED fs
    /\ UNCHANGED <<AppVars, test>>

\* let compressed_size = output_file.metadata()?.len();
\* Ok((total_bytes, compressed_size, output_path)) => tx.send(Finished { .. })
compress_size(j) ==
    /\ IsJob(j, "compress", "size")
    /\ \/ LET compressed_size == Len(fs[jobs[j].output_path].data)
          IN  /\ jobs' = [jobs EXCEPT ![j].pc = "done",
                                      ![j].compressed_size = compressed_size]
              /\ Send(j, Finished(jobs[j].total_bytes, compressed_size,
                                  jobs[j].output_path))
       \/ Fail(j, "io error")
    /\ UNCHANGED <<fs, AppVars, test>>

-----------------------------------------------------------------------------
(* The decompression worker: the thread of start_decompression *)

\* let input_file = File::open(&input_path)?;
\* let compressed_size = input_file.metadata()?.len()
decompress_open(j) ==
    /\ IsJob(j, "decompress", "open")
    /\ \/ /\ fs[jobs[j].input_path].exists
          /\ jobs' = [jobs EXCEPT ![j].pc = "create",
                         ![j].compressed_size = Len(fs[jobs[j].input_path].data)]
          /\ UNCHANGED <<chan, sent>>
       \/ Fail(j, "io error")
    /\ UNCHANGED <<fs, AppVars, test>>

\* let mut decoder = Decoder::new(BufReader::new(input_file))?;
\* let mut output_file = File::create(&output_path)?; buffer; bytes_processed = 0
decompress_create(j) ==
    /\ IsJob(j, "decompress", "create")
    /\ \/ /\ fs' = [fs EXCEPT ![jobs[j].output_path] = File(<<>>)]
          /\ jobs' = [jobs EXCEPT ![j].pc = "read", ![j].decoder_out = <<>>,
                         ![j].rpos = 0, ![j].buffer = ZeroBuffer,
                         ![j].bytes_processed = 0]
          /\ UNCHANGED <<chan, sent>>
       \/ Fail(j, "io error") /\ UNCHANGED fs
    /\ UNCHANGED <<AppVars, test>>

\* What the decoder holds for the next read: the bytes decoded earlier and not
\* yet handed out, or else what it decodes now from the source file.  The
\* source must start with the magic symbol; an empty or ended source is the
\* end of the stream.
DecoderNext(jb, data) ==
    IF jb.decoder_out # <<>>
    THEN [out |-> jb.decoder_out, rpos |-> jb.rpos, bad |-> FALSE]
    ELSE IF jb.rpos = 0
    THEN IF data = <<>> THEN [out |-> <<>>, rpos |-> 0, bad |-> FALSE]
         ELSE IF data[1] # Magic THEN [out |-> <<>>, rpos |-> 0, bad |-> TRUE]
         ELSE DecoderFill(data, 2, <<>>)
    ELSE DecoderFill(data, jb.rpos + 1, <<>>)

\* One turn of the loop: let bytes_read = decoder.read(&mut buffer)?;
\* if bytes_read == 0 { break }; output_file.write_all(&buffer[..bytes_read])?;
\* bytes_processed += bytes_read; let _ = tx.send(Progress { bytes_processed,
\* total_bytes: compressed_size }).  After the break:
\* Ok((compressed_size, bytes_processed, output_path)) => tx.send(Finished {
\*     original_size: compressed_size, compressed_size: decompressed_size, .. })
decompress_chunk(j) ==
    /\ IsJob(j, "decompress", "read")
    /\ LET d == DecoderNext(jobs[j], fs[jobs[j].input_path].data)
           n == Min(BufSize, Len(d.out))
           buffer == ReadInto(jobs[j].buffer, d.out, 0, n)
           bp == AddProcessed(jobs[j].bytes_processed, n)
       IN  \/ /\ ~d.bad /\ n = 0
              /\ jobs' = [jobs EXCEPT ![j].pc = "done", ![j].bytes_read = 0,
                                      ![j].rpos = d.rpos]
              /\ Send(j, Finished(jobs[j].compressed_size, jobs[j].bytes_processed,
                                  jobs[j].output_path))
              /\ UNCHANGED fs
           \/ /\ ~d.bad /\ n > 0
              /\ fs' = [fs EXCEPT ![jobs[j].output_path] =
                          File(WriteAt(@.data, jobs[j].wpos, Chunk(buffer, n)))]
              /\ jobs' = [jobs EXCEPT
                     ![j].bytes_read = n, ![j].buffer = buffer, ![j].rpos = d.rpos,
                     ![j].decoder_out = SubSeq(d.out, n + 1, Len(d.out)),
                     ![j].wpos = @ + n, ![j].bytes_processed = bp]
              /\ Send(j, Progress(bp, jobs[j].compressed_size))
           \/ /\ d.bad
              /\ Fail(j, "format error") /\ UNCHANGED fs
           \/ Fail(j, "io error") /\ UNCHANGED fs
    /\ UNCHANGED <<AppVars, test>>

Worker(j) ==
    \/ compress_open(j) \/ compress_create(j) \/ compress_chunk(j)
    \/ compress_finish(j) \/ compress_size(j)
    \/ decompress_open(j) \/ decompress_create(j) \/ decompress_chunk(j)

-----------------------------------------------------------------------------
(* enum CompressionLevel *)

Levels == {"Fast", "Normal", "Best"}

zstd_level(l) == CASE l = "Fast" -> 1 [] l = "Normal" -> 3 [] l = "Best" -> 19

\* a cycle that wraps from Best to Fast
increase_wrapping(l) ==
    CASE l = "Fast" -> "Normal" [] l = "Normal" -> "Best" [] l = "Best" -> "Fast"

\* Cycle upward (Down arrow, toward Best)
increase(l) ==
    CASE l = "Fast" -> "Normal" [] l = "Normal" -> "Best" [] l = "Best" -> "Best"

\* Cycle downward (Up arrow, toward Fast)
decrease(l) ==
    CASE l = "Fast" -> "Fast" [] l = "Normal" -> "Fast" [] l = "Best" -> "Normal"

-----------------------------------------------------------------------------
(* struct App: the controller *)

RECURSIVE GCD(_, _)
GCD(a, b) == IF b = 0 THEN a ELSE GCD(b, a % b)

\* the f64 n / d (d > 0), kept as a fraction in lowest terms
Frac(n, d) == [num |-> n \div GCD(n, d), den |-> d \div GCD(n, d)]
Zero == [num |-> 0, den |-> 1]
One == [num |-> 1, den |-> 1]

\* receiver: None
NoReceiver == 0
NoInstant == [some |-> FALSE, elapsed |-> 0]
\* Some(Instant::now())
Now == [some |-> TRUE, elapsed |-> 0]
NoResult == [kind |-> "None"]
\* Duration::from_secs(2)
DismissSecs == 2

\* impl Default for App
AppDefault ==
    [exit |-> FALSE, is_compressing |-> FALSE, is_decompressing |-> FALSE,
     progress |-> Zero, status_message |-> [text |-> "Press 'o' or 'd'"],
     receiver |-> NoReceiver, last_compression_result |-> NoResult,
     compression_finished_at |-> NoInstant, compression_level |-> "Normal"]

NoEvent == [key |-> "none", picked |-> FALSE]
NoDrain == [job |-> 0, msgs |-> <<>>]

\* what rfd::FileDialog::pick_file can return: a file that exists
Pickable == {p \in Paths : fs[p].exists}
\* what the save dialog of 's' can return
SavePaths == {OutputTxt}

\* a key press that clears the last result with the gauge
clear_progress_and_result(a) ==
    IF ~a.is_compressing /\ a.progress.num > 0
    THEN [a EXCEPT !.progress = Zero, !.last_compression_result = NoResult] ELSE a

\* the first statement of handle_key_event: a key press clears the gauge of
\* a job that is over
clear_progress(a) ==
    IF ~a.is_compressing /\ a.progress.num > 0 THEN [a EXCEPT !.progress = Zero] ELSE a

\* the Up arrow without the is_compressing test
key_up_unlocked(a) == [a EXCEPT !.compression_level = decrease(a.compression_level)]

\* KeyCode::Up
key_up(a) ==
    IF ~a.is_compressing
    THEN [a EXCEPT !.compression_level = decrease(a.compression_level)] ELSE a

\* KeyCode::Down
key_down(a) ==
    IF ~a.is_compressing
    THEN [a EXCEPT !.compression_level = increase(a.compression_level)] ELSE a

\* a start that keeps the receiver of a job that is still running
KeepReceiver(a, rx) == IF a.receiver # NoReceiver THEN a.receiver ELSE rx

\* the receiver a start stores in self.receiver: the new channel's
StartReceiver(a, rx) == rx

\* a start of 's' that does not set is_compressing
start_compression_job_unflagged(a, rx, input) ==
    [a EXCEPT !.receiver = StartReceiver(a, rx),
              !.progress = Zero, !.compression_finished_at = NoInstant,
              !.status_message = [text |-> "Compressing", file |-> input]]

\* start_compression_job: the controller's part
start_compression_job(a, rx, input) ==
    [a EXCEPT !.receiver = StartReceiver(a, rx), !.is_compressing = TRUE,
              !.progress = Zero, !.compression_finished_at = NoInstant,
              !.status_message = [text |-> "Compressing", file |-> input]]

\* a start of 'o' that leaves a pending dismiss timer running
key_open_start_keeps_timer(a, rx, input) ==
    [a EXCEPT !.receiver = StartReceiver(a, rx), !.is_compressing = TRUE,
              !.progress = Zero,
              !.status_message = [text |-> "Compressing", file |-> input,
                                  level |-> a.compression_level]]

\* KeyCode::Char('o') with a file picked: the controller's part
key_open_start(a, rx, input) ==
    [a EXCEPT !.receiver = StartReceiver(a, rx), !.is_compressing = TRUE,
              !.progress = Zero, !.compression_finished_at = NoInstant,
              !.status_message = [text |-> "Compressing", file |-> input,
                                  level |-> a.compression_level]]

\* a start of 'd' that leaves a pending dismiss timer running
key_decompress_start_keeps_timer(a, rx, input) ==
    [a EXCEPT !.receiver = StartReceiver(a, rx), !.is_compressing = TRUE,
              !.is_decompressing = TRUE, !.progress = Zero,
              !.status_message = [text |-> "Decompressing", file |-> input]]

\* KeyCode::Char('d') with a file picked: the controller's part
key_decompress_start(a, rx, input) ==
    [a EXCEPT !.receiver = StartReceiver(a, rx), !.is_compressing = TRUE,
              !.is_decompressing = TRUE,
              !.progress = Zero, !.compression_finished_at = NoInstant,
              !.status_message = [text |-> "Decompressing", file |-> input]]

\* a cancelled dialog that also ends the running job's display
key_no_file_stops(a) ==
    [a EXCEPT !.status_message = [text |-> "Not Compressing"], !.is_compressing = FALSE]

\* the else branch of 'o' and of 's': no file picked
key_no_file(a) == [a EXCEPT !.status_message = [text |-> "Not Compressing"]]

\* 'd' has no else branch
key_decompress_no_file(a) == a

Polling == pc = "poll" /\ ~app.exit

Handled(key, picked) ==
    /\ pc' = "check"
    /\ last_event' = [key |-> key, picked |-> picked]
    /\ last_drain' = NoDrain

\* event::poll timed out, or the event is no key press
NoKey ==
    /\ Polling
    /\ Handled("none", FALSE)
    /\ UNCHANGED <<app, fs, jobs, chan, sent, test>>

\* a 'q' that is not taken while a job runs
KeyQuitWhenIdle ==
    /\ Polling
    /\ app' = IF app.is_compressing THEN clear_progress(app)
              ELSE [clear_progress(app) EXCEPT !.exit = TRUE]
    /\ Handled("q", FALSE)
    /\ UNCHANGED <<fs, jobs, chan, sent, test>>

\* KeyCode::Char('q') => self.exit()
KeyQuit ==
    /\ Polling
    /\ app' = [clear_progress(app) EXCEPT !.exit = TRUE]
    /\ Handled("q", FALSE)
    /\ UNCHANGED <<fs, jobs, chan, sent, test>>

KeyUp ==
    /\ Polling
    /\ app' = key_up(clear_progress(app))
    /\ Handled("Up", FALSE)
    /\ UNCHANGED <<fs, jobs, chan, sent, test>>

KeyDown ==
    /\ Polling
    /\ app' = key_down(clear_progress(app))
    /\ Handled("Down", FALSE)
    /\ UNCHANGED <<fs, jobs, chan, sent, test>>

\* _ => {}
KeyOther ==
    /\ Polling
    /\ app' = clear_progress(app)
    /\ Handled("other", FALSE)
    /\ UNCHANGED <<fs, jobs, chan, sent, test>>

CanStart(output) == Len(jobs) < MaxJobs /\ output \in Paths

\* KeyCode::Char('d')
KeyDecompress ==
    /\ Polling
    /\ \/ \E input \in Pickable :
            /\ CanStart(with_extension_empty(input))
            /\ app' = key_decompress_start(clear_progress(app), Len(jobs) + 1, input)
            /\ Spawn(DropReceiver(chan, app.receiver), "decompress", input,
                     with_extension_empty(input), "none")
            /\ Handled("d", TRUE)
       \/ /\ app' = key_decompress_no_file(clear_progress(app))
          /\ Handled("d", FALSE)
          /\ UNCHANGED <<jobs, chan, sent>>
    /\ UNCHANGED <<fs, test>>

\* KeyCode::Char('s'): the output is the path of the save dialog, or the
\* default output path when that dialog is cancelled
KeySave ==
    /\ Polling
    /\ \/ \E input \in Pickable :
          \E output \in SavePaths \cup {default_output_path(input)} :
            /\ CanStart(output)
            /\ app' = start_compression_job(clear_progress(app), Len(jobs) + 1, input)
            /\ Spawn(DropReceiver(chan, app.receiver), "compress", input, output,
                     "none")
            /\ Handled("s", TRUE)
       \/ /\ app' = key_no_file(clear_progress(app))
          /\ Handled("s", FALSE)
          /\ UNCHANGED <<jobs, chan, sent>>
    /\ UNCHANGED <<fs, test>>

\* KeyCode::Char('o')
KeyOpen ==
    /\ Polling
    /\ \/ \E input \in Pickable :
            /\ CanStart(default_output_path(input))
            /\ app' = key_open_start(clear_progress(app), Len(jobs) + 1, input)
            /\ Spawn(DropReceiver(chan, app.receiver), "compress", input,
                     default_output_path(input), app.compression_level)
            /\ Handled("o", TRUE)
       \/ /\ app' = key_no_file(clear_progress(app))
          /\ Handled("o", FALSE)
          /\ UNCHANGED <<jobs, chan, sent>>
    /\ UNCHANGED <<fs, test>>

\* the fraction without the test of total_bytes
on_progress_unguarded(a, m) ==
    [a EXCEPT !.progress = [num |-> m.bytes_processed, den |-> m.total_bytes]]

\* CompressMessage::Progress: the fraction, unless total_bytes is 0
on_progress(a, m) ==
    IF m.total_bytes > 0
    THEN [a EXCEPT !.progress = Frac(m.bytes_processed, m.total_bytes)] ELSE a

\* the summary of a Finished message
result_text(a, m) ==
    IF a.is_decompressing
    THEN [kind |-> "Decompression successful", output_path |-> m.output_path,
          compressed |-> m.original_size, decompressed |-> m.compressed_size]
    ELSE [kind |-> "Compression successful", output_path |-> m.output_path,
          original |-> m.original_size, compressed |-> m.compressed_size,
          ratio |-> IF m.original_size > 0
                    THEN Frac(m.compressed_size * 100, m.original_size) ELSE Zero]

\* a Finished that leaves the receiver in place
on_finished_keeps_receiver(a, m) ==
    [a EXCEPT !.is_compressing = FALSE, !.progress = One,
              !.is_decompressing = FALSE,
              !.status_message =
                  [text |-> IF a.is_decompressing THEN "Decompression complete!"
                            ELSE "Compression complete!"],
              !.last_compression_result = result_text(a, m),
              !.compression_finished_at = Now]

\* CompressMessage::Finished
on_finished(a, m) ==
    [a EXCEPT !.is_compressing = FALSE, !.progress = One, !.receiver = NoReceiver,
              !.is_decompressing = FALSE,
              !.status_message =
                  [text |-> IF a.is_decompressing THEN "Decompression complete!"
                            ELSE "Compression complete!"],
              !.last_compression_result = result_text(a, m),
              !.compression_finished_at = Now]

\* an Error that starts the dismiss timer as a Finished does
on_error_dismisses(a, m) ==
    [a EXCEPT !.is_compressing = FALSE, !.is_decompressing = FALSE,
              !.progress = Zero,
              !.status_message = [text |-> "Error", message |-> m.message],
              !.receiver = NoReceiver, !.compression_finished_at = Now]

\* an Error that the controller takes off the queue and ignores
on_error_ignored(a, m) == a

\* CompressMessage::Error
on_error(a, m) ==
    [a EXCEPT !.is_compressing = FALSE, !.is_decompressing = FALSE,
              !.progress = Zero,
              !.status_message = [text |-> "Error", message |-> m.message],
              !.receiver = NoReceiver]

\* if let Ok(msg) = receiver.try_recv(): one message for each call
drain_one(a, q) ==
    IF q = <<>> THEN a
    ELSE LET m == Head(q)
         IN  CASE m.type = "Progress" -> on_progress(a, m)
               [] m.type = "Finished" -> on_finished(a, m)
               [] m.type = "Error" -> on_error(a, m)

\* while let Ok(msg) = receiver.try_recv(): every queued message in order,
\* up to the first Finished or Error, which returns
RECURSIVE drain(_, _)
drain(a, q) ==
    IF q = <<>> THEN a
    ELSE LET m == Head(q)
         IN  CASE m.type = "Progress" -> drain(on_progress(a, m), Tail(q))
               [] m.type = "Finished" -> on_finished(a, m)
               [] m.type = "Error" -> on_error(a, m)

\* the messages one call of check_compression_progress takes off the queue
RECURSIVE Taken(_)
Taken(q) ==
    IF q = <<>> THEN <<>>
    ELSE IF IsTerminal(Head(q)) THEN <<Head(q)>> ELSE <<Head(q)>> \o Taken(Tail(q))

check_compression_progress(a) ==
    IF a.receiver # NoReceiver THEN drain(a, chan[a.receiver].queue) ELSE a

\* handle_events without the auto-exit
auto_exit_off(a) == a

\* the 2-second auto-exit of handle_events
auto_exit(a) ==
    IF a.compression_finished_at.some
       /\ a.compression_finished_at.elapsed >= DismissSecs
    THEN [a EXCEPT !.exit = TRUE] ELSE a

\* The rest of handle_events after the key: check_compression_progress, then
\* the auto-exit; run leaves its loop when exit is set.
Check ==
    /\ pc = "check"
    /\ LET a == auto_exit(check_compression_progress(app))
           q == IF app.receiver # NoReceiver THEN chan[app.receiver].queue ELSE <<>>
       IN  /\ app' = a
           /\ chan' = IF app.receiver = NoReceiver THEN chan
                      ELSE IF a.receiver = NoReceiver
                      THEN DropReceiver(chan, app.receiver)
                      ELSE [chan EXCEPT ![app.receiver].queue = <<>>]
           /\ last_drain' = [job |-> IF q = <<>> THEN 0 ELSE app.receiver,
                             msgs |-> Taken(q)]
           /\ pc' = IF a.exit THEN "done" ELSE "poll"
    /\ last_event' = NoEvent
    /\ UNCHANGED <<fs, jobs, sent, test>>

\* time passes: finished_at.elapsed() grows (kept up to DismissSecs)
Elapse ==
    /\ pc \in {"poll", "check"}
    /\ app.compression_finished_at.some
    /\ app.compression_finished_at.elapsed < DismissSecs
    /\ app' = [app EXCEPT !.compression_finished_at.elapsed = @ + 1]
    /\ UNCHANGED <<fs, jobs, chan, sent, pc, last_event, last_drain, test>>

\* the file the user of the application starts with: empty, or MaxLen zeros
UserFiles == {<<>>, [i \in 1..MaxLen |-> 0]}

TestOff == [pc |-> "off", original_data |-> <<>>, rx |-> 0]

\* the application: one file of the user's, nothing started
Init ==
    /\ \E d \in UserFiles :
          fs = [p \in Paths |-> IF p = InputTxt THEN File(d) ELSE NoFile]
    /\ jobs = <<>>
    /\ chan = <<>>
    /\ sent = <<>>
    /\ app = AppDefault
    /\ pc = "poll"
    /\ last_event = NoEvent
    /\ last_drain = NoDrain
    /\ test = TestOff

Next ==
    \/ \E j \in 1..Len(jobs) : Worker(j)
    \/ NoKey \/ KeyQuit \/ KeyUp \/ KeyDown \/ KeyOther
    \/ KeyDecompress \/ KeySave \/ KeyOpen
    \/ Check
    \/ Elapse

Spec == Init /\ [][Next]_vars

\* The application for the liveness properties.  Both compression keys run
\* the same worker, start_compression; the user here starts compressions
\* with 'o' only.
Tick ==
    \/ NoKey \/ KeyQuit \/ KeyUp \/ KeyDown \/ KeyOther
    \/ KeyDecompress \/ KeyOpen

WorkerStep(j) == j \in 1..Len(jobs) /\ Worker(j)

NextLive ==
    \/ \E j \in 1..Len(jobs) : Worker(j)
    \/ NoKey \/ KeyQuit \/ KeyUp \/ KeyDown \/ KeyOther
    \/ KeyDecompress \/ KeyOpen
    \/ Check
    \/ Elapse

\* Fair scheduling: the run loop keeps calling handle_events while exit is
\* not set (event::poll returns after 50 ms at the latest), every worker
\* thread gets to run its next step, and time passes.
Fairness ==
    /\ WF_vars(Tick)
    /\ WF_vars(Check)
    /\ WF_vars(Elapse)
    /\ \A j \in 1..MaxJobs : WF_vars(WorkerStep(j))

SpecLive == Init /\ [][NextLive]_vars /\ Fairness

-----------------------------------------------------------------------------
(* tests::compress_then_decompress_roundtrip, for any original_data *)

TestAt(at) == test.pc = at

\* std::fs::write(&original_path, &original_data)
test_write ==
    /\ TestAt("write")
    /\ fs' = [fs EXCEPT ![InputTxt] = File(test.original_data)]
    /\ test' = [test EXCEPT !.pc = "start_compression"]
    /\ UNCHANGED <<jobs, chan, sent, AppVars>>

\* let (tx, rx) = mpsc::channel(); start_compression(original, compressed, tx)
test_start_compression ==
    /\ TestAt("start_compression")
    /\ Spawn(chan, "compress", InputTxt, InputZst, "none")
    /\ test' = [test EXCEPT !.pc = "wait_compression", !.rx = Len(jobs) + 1]
    /\ UNCHANGED <<fs, AppVars>>

\* for msg in rx: the next message, waited for; Finished breaks the loop,
\* Error panics, and either way rx is dropped
TestReceive(next) ==
    /\ chan[test.rx].queue # <<>>
    /\ LET m == Head(chan[test.rx].queue)
       IN  IF IsTerminal(m)
           THEN /\ chan' = DropReceiver(chan, test.rx)
                /\ test' = [test EXCEPT !.rx = 0,
                                !.pc = IF m.type = "Finished" THEN next ELSE "panicked"]
           ELSE /\ chan' = [chan EXCEPT ![test.rx].queue = Tail(@)]
                /\ UNCHANGED test
    /\ UNCHANGED <<fs, jobs, sent, AppVars>>

test_wait_compression == TestAt("wait_compression") /\ TestReceive("start_decompression")

\* let (tx, rx) = mpsc::channel(); start_decompression(compressed, decompressed, tx)
test_start_decompression ==
    /\ TestAt("start_decompression")
    /\ Spawn(chan, "decompress", InputZst, OutputTxt, "none")
    /\ test' = [test EXCEPT !.pc = "wait_decompression", !.rx = Len(jobs) + 1]
    /\ UNCHANGED <<fs, AppVars>>

test_wait_decompression == TestAt("wait_decompression") /\ TestReceive("compare")

\* let result = std::fs::read(&decompressed_path).unwrap();
\* assert_eq!(original_data, result)
test_compare ==
    /\ TestAt("compare")
    /\ test' = [test EXCEPT !.pc = IF fs[OutputTxt].data = test.original_data
                                   THEN "cleanup" ELSE "panicked"]
    /\ UNCHANGED <<fs, jobs, chan, sent, AppVars>>

\* std::fs::remove_dir_all(&dir).ok()
test_cleanup ==
    /\ TestAt("cleanup")
    /\ fs' = [p \in Paths |-> NoFile]
    /\ test' = [test EXCEPT !.pc = "passed"]
    /\ UNCHANGED <<jobs, chan, sent, AppVars>>

InitTest ==
    /\ fs = [p \in Paths |-> NoFile]
    /\ jobs = <<>>
    /\ chan = <<>>
    /\ sent = <<>>
    /\ app = AppDefault
    /\ pc = "off"
    /\ last_event = NoEvent
    /\ last_drain = NoDrain
    /\ \E d \in Contents : test = [pc |-> "write", original_data |-> d, rx |-> 0]

NextTest ==
    \/ \E j \in 1..Len(jobs) : Worker(j)
    \/ test_write \/ test_start_compression \/ test_wait_compression
    \/ test_start_decompression \/ test_wait_decompression
    \/ test_compare \/ test_cleanup

SpecTest == InitTest /\ [][NextTest]_vars

-----------------------------------------------------------------------------
(* Properties *)

ProgressOf(s) == SelectSeq(s, LAMBDA m : m.type = "Progress")
Last(s) == s[Len(s)]
JobIds == 1..Len(jobs)

\* C1: the messages a worker sends are Progress messages followed by exactly
\* one terminal message: a Finished or an Error is the last message sent, and
\* a worker has ended exactly when it has sent one.
TerminalUniqueness ==
    \A j \in JobIds :
        /\ \A i \in 1..Len(sent[j]) : IsTerminal(sent[j][i]) => i = Len(sent[j])
        /\ jobs[j].pc = "done" <=> (sent[j] # <<>> /\ IsTerminal(Last(sent[j])))

\* one worker has ended with Progress messages and a Finished, another with
\* Progress messages and an Error
TerminalUniquenessWitness ==
    \E j, k \in JobIds :
        /\ jobs[j].pc = "done" /\ Len(sent[j]) >= 2 /\ Last(sent[j]).type = "Finished"
        /\ jobs[k].pc = "done" /\ Len(sent[k]) >= 2 /\ Last(sent[k]).type = "Error"

\* C2: in the Progress messages of one job, bytes_processed never decreases
\* and total_bytes is the same throughout.
ProgressMonotone ==
    \A j \in JobIds :
        LET p == ProgressOf(sent[j])
        IN  \A i \in 1..Len(p) : \A k \in i..Len(p) :
                /\ p[i].bytes_processed <= p[k].bytes_processed
                /\ p[i].total_bytes = p[k].total_bytes

\* a compression job and a decompression job have each sent two Progress
\* messages
ProgressMonotoneWitness ==
    \E j, k \in JobIds :
        /\ jobs[j].kind = "compress" /\ Len(ProgressOf(sent[j])) >= 2
        /\ jobs[k].kind = "decompress" /\ Len(ProgressOf(sent[k])) >= 2

\* C3: every Progress message has bytes_processed <= total_bytes, and the
\* last Progress message before a Finished has bytes_processed = total_bytes,
\* the size of the job's input file.
ProgressCountsInput ==
    \A j \in JobIds : \A i \in 1..Len(sent[j]) :
        sent[j][i].type = "Progress" =>
            /\ sent[j][i].bytes_processed <= sent[j][i].total_bytes
            /\ (i < Len(sent[j]) /\ sent[j][i + 1].type = "Finished")
                   => sent[j][i].bytes_processed = sent[j][i].total_bytes

\* C4: App.progress lies in [0, 1].
ProgressInUnitInterval ==
    /\ 0 <= app.progress.num
    /\ app.progress.num <= app.progress.den

\* C5: when the compression job and then the decompression job on its output
\* have both sent Finished, the decompressed file holds the original bytes.
RoundTrip ==
    test.pc = "compare" =>
        /\ fs[OutputTxt].exists
        /\ fs[OutputTxt].data = test.original_data

\* the round trip of a file of several chunks that holds both byte values
RoundTripWitness ==
    /\ test.pc = "compare"
    /\ Len(test.original_data) > BufSize
    /\ \E i, k \in 1..Len(test.original_data) :
          test.original_data[i] # test.original_data[k]

Rank(l) == CASE l = "Fast" -> 0 [] l = "Normal" -> 1 [] l = "Best" -> 2

\* C6: increase and decrease move one step on Fast < Normal < Best and stay
\* at the ends; the controller's level is always one of the three.
LevelSaturating ==
    /\ app.compression_level \in Levels
    /\ \A l \in Levels :
          /\ increase(l) \in Levels /\ decrease(l) \in Levels
          /\ Rank(increase(l)) = Min(Rank(l) + 1, Rank("Best"))
          /\ Rank(decrease(l)) = Max(Rank(l) - 1, Rank("Fast"))
    /\ decrease("Fast") = "Fast"
    /\ increase("Best") = "Best"
    /\ increase(increase("Normal")) = "Best"
    /\ (last_event.key = "Down" /\ ~app.is_compressing)
           => app.compression_level # "Fast"

\* the Down arrow was handled and the level is Best
LevelSaturatingWitness ==
    /\ last_event.key = "Down"
    /\ ~app.is_compressing
    /\ app.compression_level = "Best"

KeyStep == pc = "poll" /\ pc' = "check"
CheckStep == pc = "check" /\ pc' # "check"

\* C7: an arrow key leaves the level as it is while is_compressing is true,
\* and applies one decrease (Up) or one increase (Down) otherwise.
LevelLocked ==
    [][(KeyStep /\ last_event'.key \in {"Up", "Down"}) =>
          app'.compression_level =
              IF app.is_compressing THEN app.compression_level
              ELSE IF last_event'.key = "Up" THEN decrease(app.compression_level)
              ELSE increase(app.compression_level)]_vars

\* an arrow key was handled during a job
LevelLockedWitness ==
    /\ pc = "check"
    /\ last_event.key \in {"Up", "Down"}
    /\ app.is_compressing

\* C8: a call of check_compression_progress that takes only Progress
\* messages with total_bytes = 0 off the queue leaves every field of the
\* controller as it was.
ZeroTotalGuard ==
    [][(/\ CheckStep
        /\ last_drain'.msgs # <<>>
        /\ \A i \in 1..Len(last_drain'.msgs) :
              /\ last_drain'.msgs[i].type = "Progress"
              /\ last_drain'.msgs[i].total_bytes = 0)
       => app' = app]_vars

\* the controller has taken a Progress message with total_bytes = 0
ZeroTotalGuardWitness ==
    /\ last_drain.msgs # <<>>
    /\ \A i \in 1..Len(last_drain.msgs) :
          /\ last_drain.msgs[i].type = "Progress"
          /\ last_drain.msgs[i].total_bytes = 0
          /\ last_drain.msgs[i].bytes_processed > 0

CancelStep == KeyStep /\ last_event'.key \in {"o", "s", "d"} /\ ~last_event'.picked

\* C9 as claimed: a start key whose file dialog is cancelled starts no job,
\* creates no channel and changes nothing of the controller but the status
\* text, which it sets.
CancelOnlySetsStatus ==
    [][CancelStep =>
          /\ jobs' = jobs /\ chan' = chan /\ sent' = sent
          /\ app'.status_message = [text |-> "Not Compressing"]
          /\ app' = [app EXCEPT !.status_message = app'.status_message]]_vars

\* C9 as amended: a cancelled dialog starts no job and creates no channel;
\* the running flags, the receiver, the level, the result, the timer and
\* the exit flag stay; 'o' and 's' set the status text and 'd' leaves it;
\* progress stays while a job runs, and is 0 afterwards when none runs.
CancelKeepsJobState ==
    [][CancelStep =>
          /\ jobs' = jobs /\ chan' = chan /\ sent' = sent
          /\ app'.is_compressing = app.is_compressing
          /\ app'.is_decompressing = app.is_decompressing
          /\ app'.receiver = app.receiver
          /\ app'.compression_level = app.compression_level
          /\ app'.last_compression_result = app.last_compression_result
          /\ app'.compression_finished_at = app.compression_finished_at
          /\ app'.exit = app.exit
          /\ app'.status_message =
                 IF last_event'.key = "d" THEN app.status_message
                 ELSE [text |-> "Not Compressing"]
          /\ app'.progress = IF app.is_compressing THEN app.progress ELSE Zero]_vars

\* the dialog of 'o' was cancelled while a result was shown, during a job
\* with progress made, and the dialog of 'd' at any time
CancelKeepsJobStateWitness ==
    /\ pc = "check"
    /\ ~last_event.picked
    /\ \/ /\ last_event.key = "o"
          /\ app.compression_finished_at.some
          /\ app.progress = Zero
       \/ /\ last_event.key = "s"
          /\ app.is_compressing
          /\ app.progress.num > 0

\* C10: only the channel of the job started last is ever read: the receiver
\* the controller holds is that job's, the messages a tick takes come from
\* it, and the channel of every earlier job is closed and holds nothing.
SupersededNeverObserved ==
    /\ app.receiver # NoReceiver => app.receiver = Len(jobs)
    /\ last_drain.job # 0 => last_drain.job = Len(jobs)
    /\ \A j \in JobIds : j < Len(jobs) => ~chan[j].alive /\ chan[j].queue = <<>>

\* messages of the second job were taken while the first worker, which has
\* sent messages of its own, still runs
SupersededNeverObservedWitness ==
    /\ Len(jobs) = 2
    /\ last_drain.job = 2
    /\ jobs[1].pc # "done"
    /\ sent[1] # <<>>

StartStep == KeyStep /\ last_event'.picked

\* C11: a start with a picked file adds one worker and leaves every earlier
\* worker and what it has sent as they are; a worker that has not ended can
\* always take its next step, whether or not its receiver was dropped; and
\* the step of a worker whose receiver was dropped changes no channel, while
\* the message it sends, if any, is recorded as sent.
ReentrantStart ==
    /\ [](\A j \in JobIds : jobs[j].pc # "done" => ENABLED Worker(j))
    /\ [][/\ StartStep =>
                /\ Len(jobs') = Len(jobs) + 1
                /\ SubSeq(jobs', 1, Len(jobs)) = jobs
                /\ SubSeq(sent', 1, Len(sent)) = sent
          /\ \A j \in JobIds :
                (~chan[j].alive /\ jobs'[j] # jobs[j]) =>
                    /\ chan' = chan
                    /\ Len(sent'[j]) >= Len(sent[j])
                    /\ jobs'[j].pc = "done" =>
                           (Len(sent'[j]) = Len(sent[j]) + 1 /\ IsTerminal(Last(sent'[j])))
         ]_vars

\* two workers are in their loops at the same time; the first one's receiver
\* was dropped by the second start and it has sent a message since
ReentrantStartWitness ==
    /\ Len(jobs) = 2
    /\ jobs[1].pc = "read" /\ jobs[2].pc = "read"
    /\ ~chan[1].alive
    /\ sent[1] # <<>> /\ sent[2] # <<>>

\* a call of check_compression_progress has applied a Finished message
DrainedFinished ==
    /\ last_drain.msgs # <<>>
    /\ Last(last_drain.msgs).type = "Finished"

\* C12: when the controller has applied the Finished message of the job
\* whose channel it held, the result summary is the one of that job's
\* direction: with a ratio for a compression job, without for a
\* decompression job.
ResultMatchesDirection ==
    DrainedFinished =>
        app.last_compression_result.kind =
            IF jobs[last_drain.job].kind = "compress"
            THEN "Compression successful" ELSE "Decompression successful"

\* C13: the call of check_compression_progress that applies a Finished
\* message leaves is_compressing false, progress 1, no receiver, a result and
\* the dismiss timer started now; the Finished is the last message it takes,
\* the channel is closed and emptied, a closed channel is never reopened, and
\* the controller only ever takes messages from an open channel it holds.
FinishedTransition ==
    [][/\ (CheckStep /\ DrainedFinished') =>
              /\ ~app'.is_compressing
              /\ app'.progress = One
              /\ app'.receiver = NoReceiver
              /\ app'.last_compression_result # NoResult
              /\ app'.compression_finished_at = Now
              /\ \A i \in 1..(Len(last_drain'.msgs) - 1) :
                    ~IsTerminal(last_drain'.msgs[i])
              /\ last_drain'.job = app.receiver
              /\ ~chan'[app.receiver].alive
              /\ chan'[app.receiver].queue = <<>>
       /\ \A j \in JobIds : ~chan[j].alive => (~chan'[j].alive /\ chan'[j].queue = <<>>)
       /\ (CheckStep /\ last_drain'.msgs # <<>>) =>
              (last_drain'.job = app.receiver /\ chan[app.receiver].alive)
      ]_vars

\* a Finished message was applied in the same call as Progress messages
FinishedTransitionWitness ==
    /\ pc = "poll"
    /\ DrainedFinished
    /\ Len(last_drain.msgs) >= 2
    /\ app.compression_finished_at = Now

\* a call of check_compression_progress has applied an Error message
DrainedError ==
    /\ last_drain.msgs # <<>>
    /\ Last(last_drain.msgs).type = "Error"

\* the controller shows an error: what on_error leaves
ShowingError ==
    /\ app.status_message.text = "Error"
    /\ app.receiver = NoReceiver

\* C14: the call of check_compression_progress that applies an Error message
\* leaves is_compressing and is_decompressing false, progress 0, the error's
\* message in the status text, no receiver and no dismiss timer, and sets no
\* exit flag; while the error is shown, a tick without a key changes nothing
\* of the controller and the loop goes on.
ErrorTransition ==
    [][/\ (CheckStep /\ DrainedError') =>
              /\ ~app'.is_compressing
              /\ ~app'.is_decompressing
              /\ app'.progress = Zero
              /\ app'.status_message =
                     [text |-> "Error", message |-> Last(last_drain'.msgs).message]
              /\ app'.receiver = NoReceiver
              /\ app'.compression_finished_at = NoInstant
              /\ app'.exit = app.exit
              /\ ~chan'[app.receiver].alive
       /\ (CheckStep /\ ShowingError /\ last_event.key = "none") =>
              (app' = app /\ pc' = "poll")
       /\ (ShowingError /\ app' # app) => KeyStep
      ]_vars

\* an Error message was applied after Progress messages, while a result of
\* an earlier job is kept
ErrorTransitionWitness ==
    /\ pc = "poll"
    /\ DrainedError
    /\ Len(last_drain.msgs) >= 2
    /\ app.last_compression_result # NoResult

\* C15: a start key with a picked file makes one new channel, whose
\* receiver the controller holds, and one new worker that has run nothing;
\* is_compressing is true, progress 0, no dismiss timer is pending, the
\* status text names the operation and the file, and exit, the level and
\* the last result are as before.
StartTransition ==
    [][StartStep =>
          LET n == Len(jobs) + 1
          IN  /\ Len(jobs') = n /\ Len(chan') = n /\ Len(sent') = n
              /\ app'.receiver = n
              /\ chan'[n] = [alive |-> TRUE, queue |-> <<>>]
              /\ \A j \in JobIds : ~chan'[j].alive
              /\ jobs'[n].pc = "open" /\ sent'[n] = <<>>
              /\ jobs'[n].kind = IF last_event'.key = "d" THEN "decompress" ELSE "compress"
              /\ app'.is_compressing
              /\ app'.progress = Zero
              /\ app'.compression_finished_at = NoInstant
              /\ app'.status_message.text =
                     IF last_event'.key = "d" THEN "Decompressing" ELSE "Compressing"
              /\ app'.status_message.file = jobs'[n].input_path
              /\ app'.exit = app.exit
              /\ app'.compression_level = app.compression_level
              /\ app'.last_compression_result = app.last_compression_result
      ]_vars

\* a start while the result of the job before is shown and its dismiss timer
\* has run for some time
StartTransitionWitness ==
    /\ pc = "check"
    /\ last_event.picked
    /\ Len(jobs) = 2
    /\ app.last_compression_result # NoResult
    /\ app.compression_finished_at = NoInstant
    /\ app.is_compressing

DismissDue ==
    /\ app.compression_finished_at.some
    /\ app.compression_finished_at.elapsed >= DismissSecs

\* C16: a tick that ends with the dismiss timer pending for DismissSecs or
\* more sets exit and ends the run loop, and a tick that ends with the timer
\* pending for less sets no exit flag of its own; under fair scheduling a
\* pending timer leads to exit unless a start clears it first.
AutoDismiss ==
    /\ [][CheckStep =>
             /\ DismissDue' => (app'.exit /\ pc' = "done")
             /\ (app'.compression_finished_at.some /\ ~DismissDue') =>
                    app'.exit = app.exit
             /\ pc' = "done" <=> app'.exit]_vars
    /\ app.compression_finished_at.some ~>
           (app.exit \/ ~app.compression_finished_at.some)

\* the run loop has ended on the timer: the gauge still shows the finished
\* job, so no key was pressed since its Finished message
AutoDismissWitness ==
    /\ pc = "done"
    /\ app.exit
    /\ DismissDue
    /\ app.progress = One

HasEnded(j) ==
    /\ j \in JobIds
    /\ jobs[j].pc = "done"
    /\ sent[j] # <<>>
    /\ IsTerminal(Last(sent[j]))

\* C17: under fair scheduling, once a job is started a state follows in
\* which its worker has ended, having sent a Finished or an Error as its
\* last message, and the controller is no longer running that job:
\* is_compressing is false, or the job was superseded, or the user has quit.
EndToEnd ==
    \A j \in 1..MaxJobs :
        (j \in JobIds) ~>
            /\ HasEnded(j)
            /\ (~app.is_compressing \/ app.exit \/ app.receiver # j)

\* two jobs were started and have ended, one with an Error and one with a
\* Finished; the controller has applied the second one's terminal message
\* and the loop goes on
EndToEndWitness ==
    /\ pc = "poll" /\ ~app.exit
    /\ Len(jobs) = 2
    /\ HasEnded(1) /\ HasEnded(2)
    /\ Last(sent[1]).type = "Error" /\ Len(sent[1]) >= 2
    /\ Last(sent[2]).type = "Finished"
    /\ last_drain.job = 2
    /\ ~app.is_compressing

\* the Progress messages of s that update the gauge
Gauged(s) == SelectSeq(s, LAMBDA m : m.type = "Progress" /\ m.total_bytes > 0)

\* C18: a call of check_compression_progress with a receiver takes the
\* queued messages in the order they were sent, from the first one on, up to
\* and including the first terminal message, or all of them when there is
\* none; nothing is left on the queue; and when it applied no terminal
\* message, progress is the fraction of the last Progress message taken that
\* has total_bytes > 0, or is unchanged when there is none.
FullDrain ==
    [][(CheckStep /\ app.receiver # NoReceiver) =>
          LET r == app.receiver
              q == chan[r].queue
              taken == last_drain'.msgs
              n == Len(taken)
          IN  /\ n <= Len(q)
              /\ taken = SubSeq(q, 1, n)
              /\ q = SubSeq(sent[r], Len(sent[r]) - Len(q) + 1, Len(sent[r]))
              /\ \A i \in 1..(n - 1) : ~IsTerminal(taken[i])
              /\ n < Len(q) => IsTerminal(taken[n])
              /\ chan'[r].queue = <<>>
              /\ (n = 0 \/ ~IsTerminal(taken[n])) =>
                    /\ app'.receiver = r
                    /\ app'.progress =
                           IF Gauged(taken) = <<>> THEN app.progress
                           ELSE Frac(Last(Gauged(taken)).bytes_processed,
                                     Last(Gauged(taken)).total_bytes)
      ]_vars

\* one call has taken two Progress messages of different fractions and no
\* terminal message
FullDrainWitness ==
    /\ pc = "poll"
    /\ Len(last_drain.msgs) >= 2
    /\ Last(last_drain.msgs).type = "Progress"
    /\ Last(last_drain.msgs).total_bytes > 0
    /\ last_drain.msgs[1].bytes_processed < Last(last_drain.msgs).bytes_processed
    /\ app.progress = Frac(Last(last_drain.msgs).bytes_processed,
                           Last(last_drain.msgs).total_bytes)

\* C19: while the run loop polls, 'q' can be handled; handling it sets exit;
\* exit is never cleared; the tick in which exit is set is the last one, and
\* after it the controller does nothing more.
QuitFromAnyState ==
    /\ [](Polling => ENABLED KeyQuit)
    /\ [][/\ (KeyStep /\ last_event'.key = "q") => app'.exit
          /\ app.exit => app'.exit
          /\ (CheckStep /\ app.exit) => pc' = "done"
          /\ (pc = "poll" /\ app.exit) => pc' = "poll"
          /\ pc = "done" => (app' = app /\ pc' = "done")
         ]_vars

\* the run loop has ended on a 'q' pressed during a job: no dismiss timer
\* was pending
QuitFromAnyStateWitness ==
    /\ pc = "done"
    /\ app.exit
    /\ app.is_compressing
    /\ app.progress.num > 0
    /\ app.last_compression_result # NoResult

\* the worker j holds an encoder: Encoder::new(output_file, EncoderLevel)
\* has returned it and finish has not consumed it
HasEncoder(j) == jobs[j].kind = "compress" /\ jobs[j].pc \in {"read", "finish"}

\* C20: the encoder of the compression job the controller is running was
\* created at zstd_level of the controller's level, which is the level held
\* at the start of the job, as the level is locked while is_compressing.
JobLevelAtStart ==
    \A j \in JobIds :
        (app.receiver = j /\ HasEncoder(j)) =>
            EncoderLevel = zstd_level(app.compression_level)

\* the compression worker j found its input empty: the size it took at the
\* open is 0 and its first read returned 0 bytes (or it failed before)
EmptyInput(j) ==
    /\ jobs[j].kind = "compress"
    /\ jobs[j].total_bytes = 0
    /\ jobs[j].rpos = 0
    /\ jobs[j].pc \in {"finish", "size", "done"}

\* what the worker of an empty input does: no Progress message, and one
\* terminal message, which is Finished with original_size = 0 if no step
\* failed
EmptyInputWorker ==
    \A j \in JobIds :
        EmptyInput(j) =>
            /\ jobs[j].bytes_processed = 0
            /\ ProgressOf(sent[j]) = <<>>
            /\ Len(sent[j]) <= 1
            /\ jobs[j].pc = "done" =>
                   /\ Len(sent[j]) = 1
                   /\ sent[j][1].type = "Finished" => sent[j][1].original_size = 0

\* what the controller has applied is the Finished of a compression job
\* with original_size = 0
DrainedEmptyFinished ==
    /\ DrainedFinished
    /\ jobs[last_drain.job].kind = "compress"
    /\ Last(last_drain.msgs).original_size = 0

\* C21: a compression worker whose input is empty sends no Progress message
\* and, unless a step fails, exactly one Finished with original_size = 0;
\* when the controller has applied that Finished, progress is 1 and the
\* result is the compression summary with a ratio of 0.
EmptyInputJob ==
    /\ EmptyInputWorker
    /\ DrainedEmptyFinished =>
          /\ app.progress = One
          /\ app.last_compression_result.kind = "Compression successful"
          /\ app.last_compression_result.ratio = Zero

\* C22: is_compressing is true exactly when the controller holds a receiver,
\* and is_decompressing is true only when is_compressing is.
RunningIffReceiver ==
    /\ app.is_compressing <=> app.receiver # NoReceiver
    /\ app.is_decompressing => app.is_compressing

\* a decompression job runs after an earlier job has finished
RunningIffReceiverWitness ==
    /\ app.is_decompressing
    /\ app.receiver = 2
    /\ app.last_compression_result # NoResult
    /\ sent[2] # <<>>

\* C23: while the dismiss timer is pending, is_compressing is false, the
\* controller holds no receiver and a result is set; and a tick that ends
\* the run loop on the timer ends it with no job running.
TimerImpliesIdle ==
    /\ app.compression_finished_at.some =>
          /\ ~app.is_compressing
          /\ app.receiver = NoReceiver
          /\ app.last_compression_result # NoResult
    /\ (pc = "done" /\ app.is_compressing) => ~app.compression_finished_at.some

\* the timer of the second job's Finished is pending and has run for some
\* time, the first job having been superseded
TimerImpliesIdleWitness ==
    /\ pc = "poll"
    /\ app.compression_finished_at.some
    /\ app.compression_finished_at.elapsed >= 1
    /\ Len(jobs) = 2
    /\ sent[1] = <<>> \/ ~IsTerminal(Last(sent[1]))

\* C24: last_compression_result changes only in a call of
\* check_compression_progress that applies a Finished message, and is never
\* set back to none.
ResultOnlyByFinished ==
    [][/\ app'.last_compression_result # app.last_compression_result =>
              (CheckStep /\ DrainedFinished')
       /\ app.last_compression_result # NoResult =>
              app'.last_compression_result # NoResult
      ]_vars

\* the run loop has ended on 'q' after a job that finished and a later job
\* that failed: the result is still the first job's summary
ResultOnlyByFinishedWitness ==
    /\ pc = "done"
    /\ app.exit
    /\ Len(jobs) = 2
    /\ HasEnded(1) /\ Last(sent[1]).type = "Finished"
    /\ HasEnded(2) /\ Last(sent[2]).type = "Error"
    /\ ShowingError
    /\ app.last_compression_result # NoResult
    /\ app.last_compression_result.output_path = jobs[1].output_path

====
